---- MODULE Spec2Model ----
(***************************************************************************)
(* LichessCLI: the response envelope (GenericResponse), the API wrapper    *)
(* (LichessApi) and the command loop (LichessCli, __main__).               *)
(*                                                                         *)
(* Python strings are sequences of pieces. A response body is a sequence   *)
(* of lexical tokens: "{" "}" "1" " " as they stand, "u" for the member    *)
(* "username":"bob", and "x" for any text that is no JSON token.           *)
(***************************************************************************)
EXTENDS Integers, Sequences, FiniteSets, TLC

VARIABLES
    pc,                 \* where the process (or the harness) stands
    event,              \* what the last step was
    config,             \* the content of the configuration file
    command_prefix,     \* LichessCli.__command_prefix
    cli_bound,          \* whether the name cli is bound in __main__
    token,              \* LichessApi.__token
    session,            \* LichessApi._session: "none", "open" or "closed"
    close_calls,        \* calls of close_session so far
    headers,            \* LichessApi.__headers
    calls,              \* calls of __send_request so far
    identity_fetches,   \* requests of api/account so far
    sent,               \* the requests the last step handed to the session
    response,           \* the last response received in the last step
    formated_response,  \* the envelope built from it
    userinfo,           \* LichessCli.__userinfo
    reads,              \* lines asked of the main prompt so far
    line,               \* the last line read at the main prompt
    handler,            \* the method the last step invoked, or "none"
    msg_prompted,       \* whether the last step read at the Message> prompt
    output,             \* what the last step printed through Prompt.output
    fault,              \* the exception the last step ended with, or "none"
    trail,              \* the calls the last step made on its way out, in order
    exit_status         \* the status the process exited with, -1 while it runs

api_vars == <<token, session, close_calls, headers, calls, identity_fetches,
              sent, response, formated_response>>
cli_vars == <<config, command_prefix, cli_bound, userinfo, reads, line, handler,
              msg_prompted, output, exit_status, trail>>
vars == <<pc, event, fault, api_vars, cli_vars>>

\* ---------------------------------------------------------------- bounds
MaxBodyLen == 3
MaxCalls == 3
MaxReads == 3

\* ------------------------------------------------------- Python values
\* An attribute that was never assigned: reading it raises AttributeError.
UnsetStr == [kind |-> "unset", val |-> <<>>]
PyNone == [kind |-> "None", val |-> <<>>]
Str(s) == [kind |-> "str", val |-> s]
UnsetData == [type |-> "unset", digits |-> 0, members |-> {}]
IntData(n) == [type |-> "int", digits |-> n, members |-> {}]
DictData(keys) == [type |-> "dict", digits |-> 0, members |-> keys]

linesep == <<"LF">>

\* ------------------------------------------------------------ responses
BodyTokens == {"{", "}", "1", " ", "u", "x"}

RECURSIVE SeqsUpTo(_, _)
SeqsUpTo(S, n) ==
    IF n = 0 THEN {<<>>}
    ELSE LET shorter == SeqsUpTo(S, n - 1)
         IN  shorter \cup {Append(s, t) : s \in {q \in shorter : Len(q) = n - 1}, t \in S}

Bodies == SeqsUpTo(BodyTokens, MaxBodyLen)
StatusCodes == {199, 200, 201, 299, 300, 400, 404, 500}
Reasons == {<<>>, <<"OK">>, <<"Not Found">>}
Elapsed == {0, 1500}

Responses ==
    [status_code : StatusCodes, reason : Reasons, text : Bodies, elapsed : Elapsed]

NoResponse == [status_code |-> 0, reason |-> <<>>, text |-> <<>>, elapsed |-> 0]

\* ------------------------------------------------------------ json.loads
RECURSIVE LStrip(_)
LStrip(s) == IF s # <<>> /\ Head(s) = " " THEN LStrip(Tail(s)) ELSE s

RECURSIVE RStrip(_)
RStrip(s) ==
    IF s # <<>> /\ s[Len(s)] = " " THEN RStrip(SubSeq(s, 1, Len(s) - 1)) ELSE s

Strip(s) == RStrip(LStrip(s))

IsNumber(s) == s # <<>> /\ \A i \in 1..Len(s) : s[i] = "1"

\* json.loads(text): ok is FALSE where it raises JSONDecodeError.
json_loads(text) ==
    LET c == Strip(text)
        inner == Strip(SubSeq(c, 2, Len(c) - 1))
    IN  IF IsNumber(c) THEN [ok |-> TRUE, value |-> IntData(Len(c))]
        ELSE IF Len(c) >= 2 /\ c[1] = "{" /\ c[Len(c)] = "}"
        THEN IF inner = <<>> THEN [ok |-> TRUE, value |-> DictData({})]
             ELSE IF inner = <<"u">> THEN [ok |-> TRUE, value |-> DictData({"username"})]
             ELSE [ok |-> FALSE, value |-> UnsetData]
        ELSE [ok |-> FALSE, value |-> UnsetData]

\* ------------------------------------------------------ GenericResponse
IsSuccess_off_by_one(status_code) == status_code > 200 /\ status_code <= 299

IsSuccess(status_code) == status_code >= 200 /\ status_code <= 299

DecodeErrorMessage(text) == Str(<<"Unable to decode JSON: ">> \o linesep \o text)

SuccessBody_silent(env, text) ==
    IF text # <<>>
    THEN LET parsed == json_loads(text)
         IN  IF parsed.ok THEN [env EXCEPT !.data = parsed.value] ELSE env
    ELSE env

\* The 2xx branch after error is cleared: the body is decoded only if non-empty.
SuccessBody(env, text) ==
    IF text # <<>>
    THEN LET parsed == json_loads(text)
         IN  IF parsed.ok THEN [env EXCEPT !.data = parsed.value]
             ELSE [env EXCEPT !.error_message = DecodeErrorMessage(text)]
    ELSE env

FailureMessage_body_always(resp) ==
    IF resp.text # <<>> THEN Str(resp.text) ELSE PyNone

\* The two non-2xx branches: 400 keeps the body, any other status the reason.
FailureMessage(resp) ==
    IF resp.status_code = 400
    THEN (IF resp.text # <<>> THEN Str(resp.text) ELSE PyNone)
    ELSE Str(resp.reason)

GenericResponse(resp) ==
    LET env == [status_code |-> resp.status_code,
                time_elapsed |-> resp.elapsed,
                error |-> TRUE,
                data |-> UnsetData,
                error_message |-> UnsetStr]
    IN  IF IsSuccess(resp.status_code)
        THEN SuccessBody([env EXCEPT !.error = FALSE], resp.text)
        ELSE [env EXCEPT !.error_message = FailureMessage(resp)]

NoEnvelope ==
    [status_code |-> 0, time_elapsed |-> 0, error |-> FALSE,
     data |-> UnsetData, error_message |-> UnsetStr]

\* ----------------------------------------------------------- LichessApi
Tokens == {"tokA", "tokB"}
BASE_URL == <<"https://lichess.org/">>
Bearer(t) == <<"Bearer ", t>>

\* LichessApi.__init__: the default headers.
DefaultHeaders(t) ==
    [k \in {"Authorization", "Accept"} |->
        IF k = "Authorization" THEN Bearer(t) ELSE <<"application/json">>]

NoAdditional == [k \in {} |-> <<>>]

\* What a caller may hand to __send_request as additionnal_headers.
OverrideValue(k) ==
    CASE k = "Authorization" -> <<"Bearer ", "evil">>
      [] k = "Accept" -> <<"text/html">>
      [] OTHER -> <<"text-plain">>

AdditionalHeaders ==
    {[k \in K |-> OverrideValue(k)] : K \in SUBSET {"Authorization", "Accept", "Content-Type"}}

MergeHeaders_no_guard(hdrs, additional) ==
    [k \in DOMAIN hdrs \cup DOMAIN additional |->
        IF k \in DOMAIN additional THEN additional[k] ELSE hdrs[k]]

\* The loop over additionnal_headers: every key but Authorization is updated.
MergeHeaders(hdrs, additional) ==
    LET keys == {k \in DOMAIN additional : k # "Authorization"}
    IN  [k \in DOMAIN hdrs \cup keys |-> IF k \in keys THEN additional[k] ELSE hdrs[k]]

\* What the transport answers: a response, or it raises.
TransportFault == [status_code |-> -1, reason |-> <<"ConnectionError">>,
                   text |-> <<>>, elapsed |-> 0]

ReasonPhrase(status_code) ==
    CASE status_code = 200 -> <<"OK">>
      [] status_code = 400 -> <<"Bad Request">>
      [] status_code = 404 -> <<"Not Found">>
      [] OTHER -> <<>>

LoopBodies == {<<>>, <<"x">>, <<"1">>, <<"{", "}">>, <<"{", "u", "}">>}

LoopResponses ==
    [status_code : {200, 400, 404}, reason : {<<>>}, text : LoopBodies, elapsed : {0}]

Outcomes ==
    {[r EXCEPT !.reason = ReasonPhrase(r.status_code)] : r \in LoopResponses}
        \cup {TransportFault}

Request(method, url, hdrs, data, additional) ==
    [method |-> method, url |-> url, headers |-> hdrs, data |-> data,
     additionnal_headers |-> additional, session |-> session]

\* __send_request: headers is the very dict self.__headers, so the update
\* lands in it; the request goes out with it; the response, if any, is wrapped.
send_request(url, method, data, additional, outcome) ==
    LET merged == MergeHeaders(headers, additional)
    IN  /\ headers' = merged
        /\ sent' = <<Request(method, url, merged, data, additional)>>
        /\ calls' = calls + 1
        /\ response' = IF outcome = TransportFault THEN NoResponse ELSE outcome
        /\ formated_response' =
              IF outcome = TransportFault THEN NoEnvelope ELSE GenericResponse(outcome)

get_user_info(username, outcome) ==
    /\ send_request(BASE_URL \o <<"api/user/">> \o username, "get", <<>>,
                    NoAdditional, outcome)
    /\ UNCHANGED identity_fetches

RECURSIVE Join(_)
Join(userlist) ==
    IF userlist = <<>> THEN <<>>
    ELSE IF Len(userlist) = 1 THEN userlist[1]
    ELSE userlist[1] \o <<",">> \o Join(Tail(userlist))

get_users_by_id(userlist, outcome) ==
    /\ send_request(BASE_URL \o <<"api/users">>, "post", Join(userlist),
                    [k \in {"Content-Type"} |-> <<"text-plain">>], outcome)
    /\ UNCHANGED identity_fetches

get_my_profile(outcome) ==
    /\ send_request(BASE_URL \o <<"api/account">>, "get", <<>>, NoAdditional, outcome)
    /\ identity_fetches' = identity_fetches + 1

send_message_twice(username, message, outcome) ==
    LET additional == [k \in {"Content-Type"} |-> <<"application/x-www-form-urlencoded">>]
        merged == MergeHeaders(headers, additional)
        request == Request("post", BASE_URL \o <<"/inbox/">> \o username, merged,
                           <<"text=">> \o message, additional)
    IN  /\ headers' = merged
        /\ sent' = <<request, request>>
        /\ calls' = calls + 2
        /\ response' = IF outcome = TransportFault THEN NoResponse ELSE outcome
        /\ formated_response' =
              IF outcome = TransportFault THEN NoEnvelope ELSE GenericResponse(outcome)
        /\ UNCHANGED identity_fetches

send_message(username, message, outcome) ==
    /\ send_request(BASE_URL \o <<"/inbox/">> \o username, "post",
                    <<"text=">> \o message,
                    [k \in {"Content-Type"} |-> <<"application/x-www-form-urlencoded">>],
                    outcome)
    /\ UNCHANGED identity_fetches

close_session ==
    /\ session' = "closed"
    /\ close_calls' = close_calls + 1

\* ------------------------------------------------------------ inputs
Usernames == {<<"b", "o", "b">>, <<"a", "l">>}
Messages == {<<>>, <<"h", "i">>}

NoConfig == [kind |-> "nofile", TOKEN |-> "", COMMAND_PREFIX |-> <<>>]

\* ------------------------------------------------------------- Toolkit
Prefixes == {<<"!">>, <<"u">>}

\* What the configuration file can hold: no file, no JSON, JSON without a
\* required key, or the keys the program reads.
Configs ==
    {[kind |-> k, TOKEN |-> "", COMMAND_PREFIX |-> <<>>] :
        k \in {"nofile", "malformed", "nokey"}}
    \cup [kind : {"ok"}, TOKEN : Tokens, COMMAND_PREFIX : Prefixes]

\* get_config raises for a missing or malformed file; a missing key raises
\* KeyError where LichessCli.__init__ reads it.
ConfigFault(cfg) ==
    CASE cfg.kind = "nofile" -> "Exception"
      [] cfg.kind = "malformed" -> "JSONDecodeError"
      [] cfg.kind = "nokey" -> "KeyError"
      [] OTHER -> "none"

\* -------------------------------------------------------------- Prompt
c_user == <<"u", "s", "e", "r">>
c_quit == <<"q", "u", "i", "t">>
c_help == <<"h", "e", "l", "p">>
c_whoami == <<"w", "h", "o", "a", "m", "i">>
c_message == <<"m", "e", "s", "s", "a", "g", "e">>

\* SUPPORTED_COMMANDS, in the order of the configuration.
SUPPORTED_COMMANDS == <<c_user, c_quit, c_help, c_whoami, c_message>>

Range(f) == {f[i] : i \in DOMAIN f}

bold(input_str) == <<"BRIGHT">> \o input_str \o <<"NORMAL">>

\* Prompt.output: anything that is no Style falls back to INFORMATION.
Styles == {"INFORMATION", "SUCCESS", "WARNING", "ERROR"}
Styled(message, style) ==
    [style |-> IF style \in Styles THEN style ELSE "INFORMATION", message |-> message]

\* data['username'] of a decoded body that has the member.
username_of(data) == IF "username" \in data.members THEN <<"bob">> ELSE <<>>

show_welcome(data) ==
    Styled(<<"logo", "Welcome to the lichess CLI", "LF", "You are now logged as ">>
           \o bold(username_of(data)) \o linesep, "None")

show_bye == Styled(linesep \o <<"Closing HTTP session, Bye.">>, "None")

\* format_user on a decoded body: every absent field takes its default.
format_user(data) ==
    LET username == username_of(data)
    IN  <<"Username: ">> \o bold(username) \o linesep
        \o <<"Account status: ">> \o bold(<<"enabled">>) \o linesep
        \o <<"Account Created at : ">> \o bold(<<"N/A">>)
        \o <<" || Last online ">> \o bold(<<"N/A">>) \o linesep
        \o <<"ELO RECAP ">> \o linesep \o linesep

RECURSIVE format_help(_, _)
format_help(commands, prefix) ==
    IF commands = <<>> THEN <<>>
    ELSE bold(Head(commands)) \o linesep
         \o prefix \o Head(commands) \o <<" usage">> \o linesep
         \o format_help(Tail(commands), prefix)

\* ----------------------------------------------------------- str methods
HasSpace(s) == \E i \in 1..Len(s) : s[i] = " "
FirstSpace(s) == CHOOSE i \in 1..Len(s) : s[i] = " " /\ \A j \in 1..(i - 1) : s[j] # " "

\* s.split(' '): one word per single space, empty words kept.
RECURSIVE Split(_)
Split(s) ==
    IF ~HasSpace(s) THEN <<s>>
    ELSE <<SubSeq(s, 1, FirstSpace(s) - 1)>> \o Split(SubSeq(s, FirstSpace(s) + 1, Len(s)))

\* s.replace(old, ''): every occurrence of old, left to right.
RECURSIVE Replace(_, _)
Replace(s, old) ==
    IF old = <<>> \/ Len(s) < Len(old) THEN s
    ELSE IF SubSeq(s, 1, Len(old)) = old THEN Replace(SubSeq(s, Len(old) + 1, Len(s)), old)
    ELSE <<Head(s)>> \o Replace(Tail(s), old)

\* ----------------------------------------------------------- LichessCli
expected_args_count == 1

PrefixedCommands(prefix) == {prefix \o c : c \in Range(SUPPORTED_COMMANDS)}

\* The methods getattr can find under a command's name.
Methods == {c_user, c_quit, c_help, c_whoami, c_message}

user_command(user_input) == Split(user_input)[1]
command_args(user_input) == Tail(Split(user_input))
method(user_input) == Replace(user_command(user_input), command_prefix)
Known_unprefixed(user_input) == user_command(user_input) \in Methods

\* user_command in self.__prefixed_commands
Known(user_input) == user_command(user_input) \in PrefixedCommands(command_prefix)

args_check_at_least(args, arg_count) ==
    [retval |-> Len(args) >= arg_count,
     output |-> IF Len(args) < arg_count
                THEN <<Styled(<<"At least ", "1", " arguments are expected!">>, "WARNING")>>
                ELSE <<>>]

args_check_silent(args, arg_count) ==
    [retval |-> Len(args) = arg_count, output |-> <<>>]

\* __args_check: the verdict and what it prints.
args_check(args, arg_count) ==
    [retval |-> Len(args) = arg_count,
     output |-> IF Len(args) = arg_count THEN <<>>
                ELSE IF Len(args) < arg_count
                THEN <<Styled(<<"At least ", "1", " arguments are expected!">>, "WARNING")>>
                ELSE <<Styled(<<"You provided too many arguments. ", "1",
                                " arguments are expected!">>, "WARNING")>>]

\* The lines a user may type at the main prompt, and at the Message> prompt.
Tails == {<<>>, <<" ">>, <<" ", "b", "o", "b">>, <<" ", " ", "b", "o", "b">>,
          <<" ", "b", "o", "b", " ", "a", "l">>}
Lines(prefix) ==
    {word \o tail :
        word \in PrefixedCommands(prefix) \cup Methods \cup {<<>>, <<"f", "o", "o">>},
        tail \in Tails}
PromptOutcomes ==
    {[kind |-> "text", text |-> m] : m \in Messages}
    \cup {[kind |-> k, text |-> <<>>] : k \in {"interrupt", "eof"}}

Caught_everything(exc) == TRUE

\* except Exception: SystemExit and KeyboardInterrupt pass through it.
Caught(exc) == exc \notin {"SystemExit", "KeyboardInterrupt"}

\* __main__ once exc leaves LichessCli(...) or cli.main(): a caught exception
\* is printed and the session closed if cli names a client; finally exits.
\* before lists the calls already made when exc left main.
ExitAfter(before, exc, sess, n) ==
    LET closes == Caught(exc) /\ cli_bound
    IN  /\ session' = IF closes THEN "closed" ELSE sess
        /\ close_calls' = IF closes THEN n + 1 ELSE n
        /\ exit_status' = 0
        /\ pc' = "exited"
        /\ fault' = exc
        /\ trail' = before \o (IF closes THEN <<"close_session">> ELSE <<>>)
                     \o <<"sys.exit">>

Exit(exc, sess, n) == ExitAfter(<<>>, exc, sess, n)

quit_bye_first ==
    /\ output' = <<show_bye>>
    /\ ExitAfter(<<"show_bye", "close_session", "sys.exit">>, "SystemExit", "closed",
                 close_calls + 1)

\* quit: close_session, show_bye, sys.exit().
quit ==
    /\ output' = <<show_bye>>
    /\ ExitAfter(<<"close_session", "show_bye", "sys.exit">>, "SystemExit", "closed",
                 close_calls + 1)

Continue ==
    /\ pc' = "read"
    /\ fault' = "none"
    /\ trail' = <<>>
    /\ UNCHANGED <<session, close_calls, exit_status>>

NoRequest ==
    /\ sent' = <<>>
    /\ response' = NoResponse
    /\ formated_response' = NoEnvelope
    /\ UNCHANGED <<headers, calls, identity_fetches>>

\* What Prompt(data) raises: data unset, not subscriptable, or without username.
PromptFault(data) ==
    CASE data.type = "unset" -> "AttributeError"
      [] data.type = "int" -> "TypeError"
      [] "username" \notin data.members -> "KeyError"
      [] OTHER -> "none"

\* What reading envelope.data and format_user raise in the user handler.
FormatFault(data) == IF data.type = "dict" THEN "none" ELSE "AttributeError"

Init ==
    /\ pc = "start"
    /\ event = "start"
    /\ fault = "none"
    /\ config \in Configs
    /\ command_prefix = <<>>
    /\ cli_bound = FALSE
    /\ token = ""
    /\ session = "none"
    /\ close_calls = 0
    /\ headers = NoAdditional
    /\ calls = 0
    /\ identity_fetches = 0
    /\ sent = <<>>
    /\ response = NoResponse
    /\ formated_response = NoEnvelope
    /\ userinfo = NoEnvelope
    /\ reads = 0
    /\ line = <<>>
    /\ handler = "none"
    /\ msg_prompted = FALSE
    /\ output = <<>>
    /\ exit_status = -1
    /\ trail = <<>>

\* LichessCli.__init__ up to the client, on a configuration that fails.
ConfigFails ==
    /\ pc = "start"
    /\ ConfigFault(config) # "none"
    /\ event' = "config"
    /\ Exit(ConfigFault(config), session, close_calls)
    /\ UNCHANGED <<config, command_prefix, cli_bound, token, headers, calls,
                   identity_fetches, sent, response, formated_response, userinfo,
                   reads, line, handler, msg_prompted, output>>

\* LichessCli.__init__ up to the client: the prefix, the commands, LichessApi.
Construct ==
    /\ pc = "start"
    /\ ConfigFault(config) = "none"
    /\ event' = "construct"
    /\ command_prefix' = config.COMMAND_PREFIX
    /\ token' = config.TOKEN
    /\ session' = "open"
    /\ headers' = DefaultHeaders(config.TOKEN)
    /\ pc' = "identity"
    /\ UNCHANGED <<fault, config, cli_bound, close_calls, calls, identity_fetches,
                   sent, response, formated_response, userinfo, reads, line,
                   handler, msg_prompted, output, exit_status, trail>>

\* The rest of LichessCli.__init__: the identity fetch, the prompt, the welcome.
FetchIdentity ==
    \E outcome \in Outcomes :
        LET exc == IF outcome = TransportFault THEN "TransportFault"
                   ELSE PromptFault(GenericResponse(outcome).data)
        IN  /\ pc = "identity"
            /\ event' = "identity"
            /\ get_my_profile(outcome)
            /\ userinfo' = IF outcome = TransportFault THEN userinfo
                           ELSE GenericResponse(outcome)
            /\ IF exc = "none"
               THEN /\ cli_bound' = TRUE
                    /\ output' = <<show_welcome(GenericResponse(outcome).data)>>
                    /\ Continue
               ELSE /\ cli_bound' = FALSE
                    /\ output' = <<>>
                    /\ Exit(exc, session, close_calls)
            /\ UNCHANGED <<config, command_prefix, token, reads, line, handler,
                           msg_prompted>>

\* One turn of the loop of main: a read at the main prompt and what follows.
Loop(ev, user_input, h) ==
    /\ pc = "read"
    /\ reads < MaxReads
    /\ reads' = reads + 1
    /\ event' = ev
    /\ line' = user_input
    /\ handler' = h
    /\ UNCHANGED <<config, command_prefix, cli_bound, token, userinfo>>

\* KeyboardInterrupt at the main prompt: main calls quit.
Interrupt ==
    /\ Loop("interrupt", <<>>, "quit")
    /\ msg_prompted' = FALSE
    /\ NoRequest
    /\ quit

\* EOFError at the main prompt: main raises it again.
EndOfInput ==
    /\ Loop("eof", <<>>, "none")
    /\ msg_prompted' = FALSE
    /\ output' = <<>>
    /\ NoRequest
    /\ Exit("EOFError", session, close_calls)

\* __command_handler on a word that is no prefixed command.
UnknownCommand ==
    \E user_input \in {l \in Lines(command_prefix) : ~Known(l)} :
        /\ Loop("line", user_input, "none")
        /\ msg_prompted' = FALSE
        /\ output' = <<Styled(<<"Unknown command! ">> \o user_command(user_input), "ERROR"),
                       Styled(<<"type ">> \o command_prefix
                              \o <<"help to have the list of supported commands">>, "None")>>
        /\ NoRequest
        /\ Continue

\* __command_handler on a prefixed command whose stripped name is no method.
NoSuchMethod ==
    \E user_input \in {l \in Lines(command_prefix) :
                            Known(l) /\ method(l) \notin Methods} :
        /\ Loop("line", user_input, "none")
        /\ msg_prompted' = FALSE
        /\ output' = <<>>
        /\ NoRequest
        /\ Exit("AttributeError", session, close_calls)

Dispatched(user_input, name) == Known(user_input) /\ method(user_input) = name

\* The lines that getattr resolves to the method called name.
LinesFor(name) == {l \in Lines(command_prefix) : Dispatched(l, name)}

User ==
    \E user_input \in LinesFor(c_user), outcome \in Outcomes :
        LET args == command_args(user_input)
            check == args_check(args, expected_args_count)
            userinfo_ == GenericResponse(outcome)
            exc == IF outcome = TransportFault THEN "TransportFault"
                   ELSE IF ~userinfo_.error THEN FormatFault(userinfo_.data)
                   ELSE "none"
        IN  /\ Loop("line", user_input, "user")
            /\ msg_prompted' = FALSE
            /\ IF ~check.retval
               THEN /\ output' = check.output
                    /\ NoRequest
                    /\ Continue
               ELSE /\ get_user_info(args[1], outcome)
                    /\ IF exc # "none"
                       THEN /\ output' = <<>>
                            /\ Exit(exc, session, close_calls)
                       ELSE /\ output' =
                                  IF ~userinfo_.error
                                  THEN <<Styled(format_user(userinfo_.data), "SUCCESS")>>
                                  ELSE <<Styled(<<"User ">> \o args[1] \o <<" not found">>,
                                                "WARNING")>>
                            /\ Continue

Quit ==
    \E user_input \in LinesFor(c_quit) :
        /\ Loop("line", user_input, "quit")
        /\ msg_prompted' = FALSE
        /\ NoRequest
        /\ quit

Help ==
    \E user_input \in LinesFor(c_help) :
        /\ Loop("line", user_input, "help")
        /\ msg_prompted' = FALSE
        /\ output' = <<Styled(format_help(SUPPORTED_COMMANDS, command_prefix), "WARNING")>>
        /\ NoRequest
        /\ Continue

Whoami_refetch ==
    \E user_input \in LinesFor(c_whoami), outcome \in Outcomes :
        /\ Loop("line", user_input, "whoami")
        /\ msg_prompted' = FALSE
        /\ get_my_profile(outcome)
        /\ output' = <<Styled(username_of(userinfo.data), "SUCCESS")>>
        /\ Continue

Whoami ==
    \E user_input \in LinesFor(c_whoami) :
        /\ Loop("line", user_input, "whoami")
        /\ msg_prompted' = FALSE
        /\ output' = <<Styled(username_of(userinfo.data), "SUCCESS")>>
        /\ NoRequest
        /\ Continue

\* str(error_message) inside the f-string of the message handler.
Shown(error_message) ==
    IF error_message.kind = "str" THEN error_message.val ELSE <<error_message.kind>>

Message ==
    \E user_input \in LinesFor(c_message), typed \in PromptOutcomes,
       outcome \in Outcomes :
        LET args == command_args(user_input)
            check == args_check(args, expected_args_count)
            response_ == GenericResponse(outcome)
        IN  /\ Loop("line", user_input, "message")
            /\ msg_prompted' = check.retval
            /\ IF ~check.retval
               THEN /\ output' = check.output
                    /\ NoRequest
                    /\ Continue
               ELSE IF typed.kind = "interrupt"
               THEN /\ NoRequest
                    /\ quit
               ELSE IF typed.kind = "eof"
               THEN /\ output' = <<>>
                    /\ NoRequest
                    /\ Exit("EOFError", session, close_calls)
               ELSE /\ send_message(args[1], typed.text, outcome)
                    /\ IF outcome = TransportFault
                       THEN /\ output' = <<>>
                            /\ Exit("TransportFault", session, close_calls)
                       ELSE /\ output' =
                                  IF response_.error
                                  THEN <<Styled(<<"An error occured while sending the message : ">>
                                                \o Shown(response_.error_message), "ERROR")>>
                                  ELSE <<Styled(<<"Message sent !">>, "SUCCESS")>>
                            /\ Continue

Next ==
    \/ ConfigFails
    \/ Construct
    \/ FetchIdentity
    \/ Interrupt
    \/ EndOfInput
    \/ UnknownCommand
    \/ NoSuchMethod
    \/ User
    \/ Quit
    \/ Help
    \/ Whoami
    \/ Message

Spec == Init /\ [][Next]_vars

\* ------------------------------------- the API wrapper driven by a caller
InitApi ==
    /\ pc = "api"
    /\ event = "construct"
    /\ fault = "none"
    /\ token \in Tokens
    /\ session = "open"
    /\ close_calls = 0
    /\ headers = DefaultHeaders(token)
    /\ calls = 0
    /\ identity_fetches = 0
    /\ sent = <<>>
    /\ response = NoResponse
    /\ formated_response = NoEnvelope
    /\ config = NoConfig
    /\ command_prefix = <<>>
    /\ cli_bound = FALSE
    /\ userinfo = NoEnvelope
    /\ reads = 0
    /\ line = <<>>
    /\ handler = "none"
    /\ msg_prompted = FALSE
    /\ output = <<>>
    /\ exit_status = -1
    /\ trail = <<>>

ApiCall(op) ==
    /\ pc = "api"
    /\ session = "open"
    /\ calls < MaxCalls
    /\ event' = op
    /\ UNCHANGED <<pc, token, session, close_calls, cli_vars>>

Raised(outcome) == IF outcome = TransportFault THEN "TransportFault" ELSE "none"

ApiGetUserInfo ==
    \E username \in Usernames, outcome \in Outcomes :
        /\ ApiCall("get_user_info")
        /\ get_user_info(username, outcome)
        /\ fault' = Raised(outcome)

ApiGetUsersById ==
    \E userlist \in {<<>>, <<<<"a", "l">>>>, <<<<"b", "o", "b">>, <<"a", "l">>>>},
       outcome \in Outcomes :
        /\ ApiCall("get_users_by_id")
        /\ get_users_by_id(userlist, outcome)
        /\ fault' = Raised(outcome)

ApiGetMyProfile ==
    \E outcome \in Outcomes :
        /\ ApiCall("get_my_profile")
        /\ get_my_profile(outcome)
        /\ fault' = Raised(outcome)

ApiSendMessage ==
    \E username \in Usernames, message \in Messages, outcome \in Outcomes :
        /\ ApiCall("send_message")
        /\ send_message(username, message, outcome)
        /\ fault' = Raised(outcome)

\* __send_request itself, with any additional headers a caller can build.
ApiSendRequest ==
    \E additional \in AdditionalHeaders, outcome \in Outcomes :
        /\ ApiCall("send_request")
        /\ send_request(BASE_URL \o <<"api/account">>, "get", <<>>, additional, outcome)
        /\ fault' = Raised(outcome)
        /\ UNCHANGED identity_fetches

ApiCloseSession ==
    /\ pc = "api"
    /\ session = "open"
    /\ close_session
    /\ event' = "close_session"
    /\ sent' = <<>>
    /\ UNCHANGED <<pc, fault, token, headers, calls, identity_fetches, response,
                   formated_response, cli_vars>>

NextApi ==
    \/ ApiGetUserInfo
    \/ ApiGetUsersById
    \/ ApiGetMyProfile
    \/ ApiSendMessage
    \/ ApiSendRequest
    \/ ApiCloseSession

SpecApi == InitApi /\ [][NextApi]_vars

\* ------------------------------------------- envelope construction alone
InitEnvelope ==
    /\ pc = "response"
    /\ event = "response"
    /\ fault = "none"
    /\ response \in Responses
    /\ formated_response = NoEnvelope
    /\ token = "tokA"
    /\ session = "none"
    /\ close_calls = 0
    /\ headers = DefaultHeaders(token)
    /\ calls = 0
    /\ identity_fetches = 0
    /\ sent = <<>>
    /\ config = NoConfig
    /\ command_prefix = <<>>
    /\ cli_bound = FALSE
    /\ userinfo = NoEnvelope
    /\ reads = 0
    /\ line = <<>>
    /\ handler = "none"
    /\ msg_prompted = FALSE
    /\ output = <<>>
    /\ exit_status = -1
    /\ trail = <<>>

BuildEnvelope ==
    /\ pc = "response"
    /\ formated_response' = GenericResponse(response)
    /\ pc' = "built"
    /\ event' = "GenericResponse"
    /\ UNCHANGED <<fault, token, session, close_calls, headers, calls,
                   identity_fetches, sent, response, cli_vars>>

NextEnvelope == BuildEnvelope

SpecEnvelope == InitEnvelope /\ [][NextEnvelope]_vars

\* ================================================================ claims
Is2xx(resp) == resp.status_code \in 200..299

\* C1: once the quit command has been dispatched the process has exited, the
\* session is closed and close_session has been called exactly once, the exit
\* handling included; and no turn of the loop follows: no read, no handler, no
\* request, no further close.
C1_QuitTerminatesOnce ==
    /\ []((event = "line" /\ handler = "quit") =>
            (pc = "exited" /\ session = "closed" /\ close_calls = 1))
    /\ [][(event = "line" /\ handler = "quit") =>
            UNCHANGED <<pc, reads, line, handler, calls, close_calls, session>>]_vars

C1_Witness ==
    /\ event = "line"
    /\ handler = "quit"
    /\ reads = 2
    /\ pc = "exited"
    /\ close_calls = 1

\* C2 as stated: whenever the process has exited after the client and its
\* session were constructed, the session has been released.
C2_ReleasedOnEveryExit ==
    (pc = "exited" /\ session # "none") => session = "closed"

\* C3: every request handed to the session carries Authorization: Bearer <token>
\* for the token given at construction, whatever additional headers the caller
\* supplied, an Authorization key among them.
C3_AuthorizationKept ==
    \A i \in DOMAIN sent : sent[i].headers["Authorization"] = <<"Bearer ", token>>

C3_Witness ==
    /\ calls = 2
    /\ sent # <<>>
    /\ "Authorization" \in DOMAIN sent[1].additionnal_headers
    /\ sent[1].additionnal_headers["Authorization"] # <<"Bearer ", token>>
    /\ sent[1].headers["Authorization"] = <<"Bearer ", token>>

\* C4: for every envelope built from a response, whatever its status code and
\* body, error is true if and only if the status code is outside [200,299].
C4_ErrorIffOutside2xx ==
    pc = "built" => (formated_response.error <=> ~Is2xx(response))

C4_Witness ==
    /\ pc = "built"
    /\ response.status_code = 299
    /\ response.text = <<"x">>
    /\ ~formated_response.error

\* C5: for every non-2xx response error is true; status 400 gives the raw body
\* as error_message when it is non-empty and None when it is empty; every other
\* non-2xx status gives the reason phrase, whatever the body.
C5_FailureMessage ==
    (pc = "built" /\ ~Is2xx(response)) =>
        /\ formated_response.error
        /\ response.status_code = 400 =>
              formated_response.error_message =
                  (IF response.text # <<>> THEN Str(response.text) ELSE PyNone)
        /\ response.status_code # 400 =>
              /\ formated_response.error_message = Str(response.reason)
              /\ response.text # response.reason =>
                    formated_response.error_message # Str(response.text)

C5_Witness ==
    /\ pc = "built"
    /\ response.status_code = 404
    /\ response.reason = <<"Not Found">>
    /\ response.text = <<"{", "u", "}">>
    /\ formated_response.error_message = Str(<<"Not Found">>)

\* C6 as stated: for every 2xx status and every body that is not valid JSON,
\* the empty body included, error is false and error_message is the
\* decode-error message.
C6_Original ==
    (pc = "built" /\ Is2xx(response) /\ ~json_loads(response.text).ok) =>
        /\ ~formated_response.error
        /\ formated_response.error_message = DecodeErrorMessage(response.text)

\* C6 amended: for every 2xx status and every NON-EMPTY body that is not valid
\* JSON, error is false and error_message is the decode-error message; for the
\* empty body error is false and error_message is never assigned.
C6_DecodeErrorOnNonEmpty ==
    (pc = "built" /\ Is2xx(response) /\ ~json_loads(response.text).ok) =>
        /\ ~formated_response.error
        /\ response.text # <<>> =>
              formated_response.error_message =
                  Str(<<"Unable to decode JSON: ", "LF">> \o response.text)
        /\ response.text = <<>> => formated_response.error_message = UnsetStr

C6_Witness ==
    /\ pc = "built"
    /\ response.status_code = 201
    /\ response.text = <<"{", "x", "}">>
    /\ ~formated_response.error
    /\ formated_response.error_message.kind = "str"

\* C7 as stated: every envelope has all five fields defined (data and
\* error_message possibly None), so reading any field never faults.
C7_AllFieldsDefined ==
    pc = "built" =>
        /\ formated_response.data # UnsetData
        /\ formated_response.error_message # UnsetStr

WordCount(user_input) == Len(Split(user_input)) - 1
AtLeastWarning ==
    [style |-> "WARNING", message |-> <<"At least ", "1", " arguments are expected!">>]
TooManyWarning ==
    [style |-> "WARNING",
     message |-> <<"You provided too many arguments. ", "1", " arguments are expected!">>]

\* C8: in the handlers user and message the body (the API request, and for
\* message the read at the second prompt) runs only with exactly one argument,
\* and does run then; with fewer the only effect is the 'At least 1 arguments'
\* warning, with more the 'too many arguments' warning: no request, no second
\* read, and the loop goes on.
C8_ArityGuard ==
    (event = "line" /\ handler \in {"user", "message"}) =>
        /\ (sent # <<>> \/ msg_prompted) => WordCount(line) = 1
        /\ WordCount(line) = 1 =>
              (IF handler = "user" THEN sent # <<>> ELSE msg_prompted)
        /\ WordCount(line) < 1 =>
              /\ output = <<AtLeastWarning>>
              /\ sent = <<>> /\ ~msg_prompted /\ pc = "read" /\ fault = "none"
        /\ WordCount(line) > 1 =>
              /\ output = <<TooManyWarning>>
              /\ sent = <<>> /\ ~msg_prompted /\ pc = "read" /\ fault = "none"

C8_Witness ==
    /\ event = "line"
    /\ handler = "user"
    /\ line = <<"!", "u", "s", "e", "r">>
    /\ output = <<AtLeastWarning>>
    /\ sent = <<>>
    /\ pc = "read"

\* C9: a turn of the loop whose first word is no prefixed command prints the
\* unknown-command message and the hint and changes nothing else: no handler,
\* no request, the session neither used nor released, and the loop reads again.
C9_UnknownCommandFrame ==
    [][(pc = "read" /\ event' = "line" /\ reads' = reads + 1
        /\ Split(line')[1] \notin {command_prefix \o c : c \in Methods})
       => /\ Len(output') = 2
          /\ output'[1].message = <<"Unknown command! ">> \o Split(line')[1]
          /\ pc' = "read"
          /\ handler' = "none"
          /\ fault' = "none"
          /\ sent' = <<>>
          /\ ~msg_prompted'
          /\ UNCHANGED <<config, command_prefix, cli_bound, token, session, close_calls,
                         headers, calls, identity_fetches, userinfo, exit_status>>]_vars

C9_Witness ==
    /\ event = "line"
    /\ line = <<"f", "o", "o", " ", "b", "o", "b">>
    /\ handler = "none"
    /\ Len(output) = 2
    /\ output[1].message = <<"Unknown command! ", "f", "o", "o">>
    /\ reads = 2
    /\ pc = "read"

\* C10 as stated: a non-2xx outcome of any API call the program makes (the
\* identity fetch, the user handler, the message handler) and an unknown
\* command or a wrong argument count never raise: the step ends without a
\* fault and the program keeps running.
C10_ApiAndInputErrorsAbsorbed ==
    LET api_error == response # NoResponse /\ ~Is2xx(response)
        input_error ==
            /\ event = "line"
            /\ \/ Split(line)[1] \notin {command_prefix \o c : c \in Methods}
               \/ handler \in {"user", "message"} /\ WordCount(line) # 1
    IN  (event \in {"identity", "line"} /\ (api_error \/ input_error)) =>
            (fault = "none" /\ pc = "read")

FirstWord(user_input) == Split(user_input)[1]
IsUnknown(user_input) == FirstWord(user_input) \notin {command_prefix \o c : c \in Methods}

\* The errors a turn of the loop absorbs: an unknown command, a wrong number of
\* arguments, a user that is not found, a message that is not sent.
AbsorbedError ==
    /\ event = "line"
    /\ \/ IsUnknown(line)
       \/ handler \in {"user", "message"} /\ WordCount(line) # 1
       \/ handler \in {"user", "message"} /\ response # NoResponse
          /\ formated_response.error

\* C11 as stated: every absorbed error of a turn of the loop produces exactly
\* one styled output line in that turn.
C11_OneLinePerAbsorbedError ==
    AbsorbedError => Len(output) = 1

\* C11 amended: an unknown command produces two output lines, the message in
\* ERROR style and the help hint in the default INFORMATION style; every other
\* absorbed error produces exactly one (WARNING for the argument count and for
\* the user that is not found, ERROR for the message that is not sent).
C11_LinesPerAbsorbedError ==
    AbsorbedError =>
        IF IsUnknown(line)
        THEN /\ Len(output) = 2
             /\ output[1].style = "ERROR"
             /\ output[2].style = "INFORMATION"
        ELSE /\ Len(output) = 1
             /\ output[1].style = (IF handler = "message" /\ WordCount(line) = 1
                                   THEN "ERROR" ELSE "WARNING")

C11_Witness ==
    /\ event = "line"
    /\ handler = "message"
    /\ WordCount(line) = 1
    /\ formated_response.error
    /\ Len(output) = 1
    /\ output[1].style = "ERROR"
    /\ pc = "read"

\* C12 as stated: the exit status is 0 when the run ends through quit and
\* non-zero when it ends through a startup failure or a fault raised in the loop.
C12_ExitStatus ==
    pc = "exited" =>
        IF fault = "SystemExit" THEN exit_status = 0 ELSE exit_status # 0

\* C13 as stated: whatever envelope get_user_info returns, the user handler
\* prints the formatted profile in SUCCESS style when error is false and the
\* 'not found' warning when it is true, raises nothing and the loop goes on.
C13_UserHandlerNeverFaults ==
    (event = "line" /\ handler = "user" /\ response # NoResponse) =>
        /\ fault = "none"
        /\ pc = "read"
        /\ Len(output) = 1
        /\ output[1].style = (IF formated_response.error THEN "WARNING" ELSE "SUCCESS")

Farewell == [style |-> "INFORMATION", message |-> <<"LF", "Closing HTTP session, Bye.">>]

\* C14: an interrupt at the main prompt ends the run as quit does: the session
\* is released exactly once, then the farewell is printed, then the process
\* exits with status 0, without any request; and no turn of the loop follows.
C14_InterruptIsGracefulQuit ==
    /\ [](event = "interrupt" =>
            /\ pc = "exited"
            /\ handler = "quit"
            /\ session = "closed"
            /\ close_calls = 1
            /\ trail = <<"close_session", "show_bye", "sys.exit", "sys.exit">>
            /\ output = <<Farewell>>
            /\ sent = <<>>
            /\ exit_status = 0)
    /\ [][event = "interrupt" =>
            UNCHANGED <<pc, reads, line, handler, calls, close_calls, session, output>>]_vars

C14_Witness ==
    /\ event = "interrupt"
    /\ reads = 2
    /\ pc = "exited"
    /\ close_calls = 1
    /\ output = <<Farewell>>

TwoDefaultHeaders ==
    [k \in {"Authorization", "Accept"} |->
        IF k = "Authorization" THEN <<"Bearer ", token>> ELSE <<"application/json">>]

\* C15 as stated: after any sequence of API operations the client's default
\* headers are still exactly Authorization and Accept: application/json, and a
\* request made without additional headers is sent with exactly those two.
C15_DefaultHeadersKept ==
    /\ headers = TwoDefaultHeaders
    /\ \A i \in DOMAIN sent :
          DOMAIN sent[i].additionnal_headers = {} => sent[i].headers = TwoDefaultHeaders

HandlerName(c) ==
    CASE c = c_user -> "user"
      [] c = c_quit -> "quit"
      [] c = c_help -> "help"
      [] c = c_whoami -> "whoami"
      [] c = c_message -> "message"
      [] OTHER -> "none"

\* C16 as stated: for every configured prefix and every built-in command name
\* N, a line whose first word is the prefix followed by N invokes handler N.
C16_PrefixedNameResolves ==
    event = "line" =>
        \A c \in Methods :
            FirstWord(line) = command_prefix \o c => handler = HandlerName(c)

\* C17: api/account is requested exactly once in a run that gets past the
\* construction of the client, at startup and never in the loop; whoami sends
\* no request and prints in SUCCESS style the username of the envelope kept
\* from that fetch, which no turn of the loop changes.
C17_IdentityFetchedOnce ==
    /\ [](/\ event \notin {"start", "config", "construct"} => identity_fetches = 1
          /\ event \in {"start", "config", "construct"} => identity_fetches = 0
          /\ event = "line" =>
                \A i \in DOMAIN sent : sent[i].url # <<"https://lichess.org/", "api/account">>
          /\ (event = "line" /\ handler = "whoami") =>
                /\ sent = <<>>
                /\ "username" \in userinfo.data.members
                /\ output = <<[style |-> "SUCCESS", message |-> <<"bob">>]>>
                /\ pc = "read")
    /\ [][pc = "read" => (userinfo' = userinfo /\ identity_fetches' = identity_fetches)]_vars

C17_Witness ==
    /\ event = "line"
    /\ handler = "whoami"
    /\ reads = 3
    /\ calls >= 2
    /\ identity_fetches = 1
    /\ output = <<[style |-> "SUCCESS", message |-> <<"bob">>]>>

\* C18: a step issues at most one request, each while the session is open,
\* and the loop reads again only once the response is there; once the session
\* is released no request is ever issued.
C18_RequestsSequenced ==
    /\ [](/\ Len(sent) <= 1
          /\ \A i \in DOMAIN sent : sent[i].session = "open"
          /\ (pc = "read" /\ sent # <<>>) => response # NoResponse)
    /\ [][calls' <= calls + 1]_vars
    /\ [][session = "closed" => (calls' = calls /\ sent' = sent)]_vars

C18_Witness ==
    /\ event = "line"
    /\ handler = "message"
    /\ msg_prompted
    /\ Len(sent) = 1
    /\ sent[1].session = "open"
    /\ response.status_code = 200
    /\ reads = 2
    /\ pc = "read"

====
